---- MODULE Spec2Model ----
(***************************************************************************)
(* Model of rust-gpu-hotreload's ShaderHotReloader (src/src/watcher.rs)    *)
(* and its builder (src/src/builder.rs).                                   *)
(*                                                                         *)
(* Three threads of control are modelled:                                  *)
(*   - the owner thread: builder calls, ShaderHotReloaderBuilder::build -> *)
(*     ShaderHotReloader::new_with_config, later check_for_reload and the  *)
(*     drop of the ShaderHotReloader value;                                *)
(*   - the event-delivery thread of the notify watcher, which runs the     *)
(*     closure of watcher.rs:58-98 once per raw notification, one          *)
(*     notification after the other;                                       *)
(*   - the file system, which produces raw notifications.                  *)
(*                                                                         *)
(* Time is the monotonic clock read by Instant::now() / Instant::elapsed,  *)
(* in milliseconds.  The clock advances only while the event-delivery      *)
(* thread is inside compile_shaders or is idle with nothing to deliver:    *)
(* the filter, the debounce test and the channel operations take no time.  *)
(*                                                                         *)
(* compile_shaders' return and the tx.send(()) that follows an Ok are one  *)
(* step (RebuildReturn): between the two the closure only prints.  The     *)
(* mutex around the Sender is used by the closure alone and is not a       *)
(* variable.  No code runs that can panic while a mutex is held, so the    *)
(* Err (poisoned) branches of the three lock() calls are not reachable and *)
(* are not modelled.  One consumer thread calls check_for_reload.          *)
(*                                                                         *)
(* The content of a notification (its kind and paths) is drawn when the    *)
(* watcher hands it to the closure; until then only its arrival time is    *)
(* kept.                                                                   *)
(*                                                                         *)
(* Three specifications share the actions: Spec runs one session from its  *)
(* builder to its drop; LiveSpec starts when construction has succeeded    *)
(* with the default window and lets the clock run longer and more files    *)
(* change; SessionsSpec runs two sessions, a call of a closure and a call  *)
(* of check_for_reload being one step each.                                *)
(*                                                                         *)
(* Option<T> values are sequences: <<>> is None and <<x>> is Some(x).      *)
(* Paths and extensions are sequences of one-character strings.            *)
(***************************************************************************)
EXTENDS Integers, Sequences, FiniteSets, TLC

(***************************************************************************)
(* Bounds of the model.                                                    *)
(***************************************************************************)
\* number of clock ticks the model lets pass
MaxTicks == 5
\* milliseconds per clock tick
TickMs == 100
\* number of raw notifications the file system produces
MaxEvents == 2

\* the live session on its own: the ticks of the clock and the file-system
\* changes of a run that starts when construction has succeeded
LiveTicks == 8
LiveEvents == 3

(***************************************************************************)
(* Program constants.                                                      *)
(***************************************************************************)
DEFAULT_DEBOUNCE_MS == 500

\* values given to ShaderHotReloaderBuilder::debounce_ms
DebounceChoices == {0, 2 * TickMs}

None == <<>>
Some(x) == <<x>>

(***************************************************************************)
(* Paths: std::path::Path::extension on the paths of an event.             *)
(***************************************************************************)
P_lib_rs == <<"s", "r", "c", "/", "l", "i", "b", ".", "r", "s">>
P_util_rs == <<"u", "t", "i", "l", ".", "r", "s">>
P_cargo_toml == <<"C", "a", "r", "g", "o", ".", "t", "o", "m", "l">>
P_dot_rs == <<"s", "r", "c", "/", ".", "r", "s">>
P_lib_rs_bk == <<"l", "i", "b", ".", "r", "s", ".", "b", "k">>
P_rs_dir == <<"x", ".", "r", "s", "/", "R", "E", "A", "D", "M", "E">>

\* the path sets carried by the raw notifications of the model
PathSets ==
    { {},
      {P_lib_rs},
      {P_cargo_toml},
      {P_lib_rs, P_cargo_toml},
      {P_lib_rs, P_util_rs},
      {P_dot_rs, P_lib_rs_bk, P_rs_dir} }

\* the positions of character c in s
Positions(s, c) == {i \in 1..Len(s) : s[i] = c}

\* the greatest element of a non-empty set of integers
Max(S) == CHOOSE m \in S : \A n \in S : n <= m

\* Path::file_name: the final component of the path
FileName(p) ==
    IF Positions(p, "/") = {} THEN p
    ELSE SubSeq(p, Max(Positions(p, "/")) + 1, Len(p))

\* Path::extension: the part of the file name after its last dot; None when
\* the name has no dot or only the leading one
Extension(p) ==
    LET name == FileName(p)
        dots == Positions(name, ".")
    IN  IF dots = {} \/ Max(dots) = 1 THEN None
        ELSE Some(SubSeq(name, Max(dots) + 1, Len(name)))

EXT_RS == <<"r", "s">>

\* watcher.rs:64-67, the mutant: every path must be a .rs file
IsRustFile_all(paths) == \A p \in paths : Extension(p) = Some(EXT_RS)

\* watcher.rs:64-67: some affected path has the extension "rs"
IsRustFile(paths) == \E p \in paths : Extension(p) = Some(EXT_RS)

(***************************************************************************)
(* notify::EventKind values, as <<variant, payload>>.                      *)
(***************************************************************************)
EventKinds ==
    { <<"Any", "">>,
      <<"Access", "Open">>,
      <<"Create", "File">>,
      <<"Modify", "Data">>,
      <<"Modify", "Metadata">>,
      <<"Remove", "File">>,
      <<"Other", "">> }

\* watcher.rs:60-63, the mutant: Remove events are let through as well
IsWatchedKind_remove(kind) == kind[1] \in {"Modify", "Create", "Remove"}

\* watcher.rs:60-63, the mutant: Access events are let through as well
IsWatchedKind_access(kind) == kind[1] \in {"Modify", "Create", "Access"}

\* watcher.rs:60-63: matches!(event.kind, Modify(_) | Create(_))
IsWatchedKind(kind) == kind[1] \in {"Modify", "Create"}

\* what the watcher hands to the closure: Result<Event, notify::Error>
RawResults ==
    [ok : {TRUE}, kind : EventKinds, paths : PathSets]
        \cup {[ok |-> FALSE, kind |-> <<"Other", "">>, paths |-> {}]}

NoEvent == [ok |-> FALSE, kind |-> <<"Any", "">>, paths |-> {}]

\* watcher.rs:59-69: the three nested tests in front of the debounce
Qualifies(res) == res.ok /\ IsWatchedKind(res.kind) /\ IsRustFile(res.paths)

(***************************************************************************)
(* The debounce test.                                                      *)
(***************************************************************************)
\* Instant::elapsed of an instant taken at `last`, read at `t`
Elapsed(last, t) == IF t >= last THEN t - last ELSE 0

\* watcher.rs:71-75, the mutant: the window is closed at its end point
Debounced_inclusive(last, t, window) ==
    /\ last # None
    /\ Elapsed(last[1], t) <= window

\* watcher.rs:71-75: a previous instant exists and less than the window has
\* elapsed since
Debounced(last, t, window) ==
    /\ last # None
    /\ Elapsed(last[1], t) < window

(***************************************************************************)
(* State.                                                                  *)
(***************************************************************************)
VARIABLES
    ctor,               \* position of the owner thread in builder / new_with_config
    debounce_ms,        \* ShaderHotReloaderBuilder.debounce_ms, captured by the closure
    now,                \* the monotonic clock, in ms
    last_compile_time,  \* Arc<Mutex<Option<Instant>>> of watcher.rs:37
    time_guard,         \* holder of the last_compile_time mutex
    rx_guard,           \* holder of the reload_receiver mutex
    queue,              \* number of () messages buffered in the mpsc channel
    watching,           \* the recursive watch is registered and the watcher alive
    pending,            \* arrival times of the notifications not yet delivered
    cb_pc,              \* position of the event-delivery thread in the closure
    cur_event,          \* the Result<Event, Error> the closure is testing
    cur_at,             \* arrival time of the notification being handled
    chk_pc,             \* position of the consumer in check_for_reload
    has_reload,         \* the local has_reload of check_for_reload
    drained,            \* messages try_recv returned in the latest call
    ret,                \* value returned by the latest check_for_reload
    failed_at,          \* history: the step at which new_with_config returned Err
    fs_count,           \* history: notifications produced by the file system
    unwatched,          \* history: a file changed, unwatched, since the
                        \* constructor's latest step
    handled,            \* history: notifications handed to the closure
    builds,             \* history: compile_shaders calls made by the closure
    succeeded,          \* history: of these, the calls that returned Ok
    published,          \* history: tx.send calls that delivered a message
    fresh,              \* history: rebuilds that returned Ok since
                        \* check_for_reload last returned
    acc_at,             \* history: arrival time of the latest accepted notification
    prev_outcome,       \* history: result of the latest finished rebuild
    build_start,        \* history: the instant the latest rebuild was invoked
    eprinted,           \* lines written by eprintln! (watcher.rs:88)
    clock_cells,        \* two sessions: the Arc<Mutex<Option<Instant>>> cells allocated
    channels,           \* two sessions: the channels created, as their numbers of messages
    sessions,           \* two sessions: what each session holds and has done
    last_call           \* two sessions: the session and the operation of the latest step

vars ==
    << ctor, debounce_ms, now, last_compile_time, time_guard, rx_guard, queue,
       watching, pending, cb_pc, cur_event, cur_at, chk_pc, has_reload,
       drained, ret, failed_at, fs_count, unwatched, handled, builds,
       succeeded, published, fresh, acc_at, prev_outcome, build_start,
       eprinted, clock_cells, channels, sessions, last_call >>

\* the variables of the owner's construction path
ctorVars == << ctor, debounce_ms, watching, failed_at, unwatched >>
\* the variables of the event-delivery thread
cbVars == << last_compile_time, time_guard, cb_pc, cur_event, cur_at >>
\* the variables of the consumer inside check_for_reload
chkVars == << rx_guard, chk_pc, has_reload, drained, ret >>
\* the history variables
histVars ==
    << fs_count, handled, builds, succeeded, published, fresh, acc_at,
       prev_outcome, build_start, eprinted >>

\* the variables of the model of two sessions
isoVars == << clock_cells, channels, sessions, last_call >>

MaxTime == MaxTicks * TickMs

\* the two sessions of the model of two sessions
Sessions == {"A", "B"}

\* a session that was not constructed yet
NoSession ==
    [ live |-> FALSE, clock |-> 0, chan |-> 0, window |-> 0, events |-> 0,
      sent |-> 0, ret |-> FALSE ]

\* no session was constructed
NoSessions ==
    /\ clock_cells = <<>>
    /\ channels = <<>>
    /\ sessions = [s \in Sessions |-> NoSession]
    /\ last_call = <<"none", "none">>

\* builder.rs:45-54 and the state before build() is called
Init ==
    /\ ctor = "builder"
    /\ debounce_ms = DEFAULT_DEBOUNCE_MS
    /\ now = 0
    /\ last_compile_time = None
    /\ time_guard = "free"
    /\ rx_guard = "free"
    /\ queue = 0
    /\ watching = FALSE
    /\ pending = <<>>
    /\ cb_pc = "idle"
    /\ cur_event = NoEvent
    /\ cur_at = 0
    /\ chk_pc = "idle"
    /\ has_reload = FALSE
    /\ drained = 0
    /\ ret = FALSE
    /\ failed_at = "none"
    /\ fs_count = 0
    /\ unwatched = FALSE
    /\ handled = 0
    /\ builds = 0
    /\ succeeded = 0
    /\ published = 0
    /\ fresh = 0
    /\ acc_at = None
    /\ prev_outcome = "none"
    /\ build_start = None
    /\ eprinted = 0
    /\ NoSessions

(***************************************************************************)
(* The owner thread: builder and constructor.                              *)
(***************************************************************************)
\* builder.rs:103-106: ShaderHotReloaderBuilder::debounce_ms
BuilderDebounceMs(ms) ==
    /\ ctor = "builder"
    /\ debounce_ms # ms
    /\ debounce_ms' = ms
    /\ unwatched' = FALSE
    /\ UNCHANGED << ctor, watching, failed_at, now, queue, pending >>
    /\ UNCHANGED << cbVars, chkVars, histVars >>
    /\ UNCHANGED isoVars

\* watcher.rs:37, the mutant: the clock starts at the instant of the initial build
InitialClock_now == Some(now)

\* watcher.rs:37: Arc::new(Mutex::new(None::<Instant>))
InitialClock == None

\* builder.rs:116-125 and watcher.rs:35-43: build() enters new_with_config,
\* which creates the channel and the clock and calls compile_shaders
Build ==
    /\ ctor = "builder"
    /\ ctor' = "initial_compile"
    /\ last_compile_time' = InitialClock
    /\ queue' = 0
    /\ unwatched' = FALSE
    /\ UNCHANGED << debounce_ms, watching, failed_at, now, pending, time_guard,
                    cb_pc, cur_event, cur_at >>
    /\ UNCHANGED << chkVars, histVars >>
    /\ UNCHANGED isoVars

\* watcher.rs:43-49, the mutant: the result of the initial build is dropped
AfterInitialCompile_ignored(ok) == "watcher_new"

\* watcher.rs:43-49: compile_shaders(...)? returns the error to the caller
AfterInitialCompile(ok) == IF ok THEN "watcher_new" ELSE "err"

\* watcher.rs:43-50: the initial compile_shaders call returns
InitialCompileReturn(ok) ==
    /\ ctor = "initial_compile"
    /\ ctor' = AfterInitialCompile(ok)
    /\ failed_at' = IF ok THEN failed_at ELSE "initial_compile"
    /\ unwatched' = FALSE
    /\ UNCHANGED << debounce_ms, watching, now, queue, pending >>
    /\ UNCHANGED << cbVars, chkVars, histVars >>
    /\ UNCHANGED isoVars

\* watcher.rs:57-100: RecommendedWatcher::new(closure, config)?
WatcherNew(ok) ==
    /\ ctor = "watcher_new"
    /\ ctor' = IF ok THEN "watch" ELSE "err"
    /\ failed_at' = IF ok THEN failed_at ELSE "watcher_new"
    /\ unwatched' = FALSE
    /\ UNCHANGED << debounce_ms, watching, now, queue, pending >>
    /\ UNCHANGED << cbVars, chkVars, histVars >>
    /\ UNCHANGED isoVars

\* watcher.rs:102, the mutant: the watch stays registered though watch() failed
WatchRegistered_leaked(ok) == TRUE

\* watcher.rs:102: on Err the `?` returns and the local watcher is dropped
WatchRegistered(ok) == ok

\* watcher.rs:102-109: watcher.watch(path, Recursive)? and Ok(Self {..})
WatcherWatch(ok) ==
    /\ ctor = "watch"
    /\ ctor' = IF ok THEN "ok" ELSE "err"
    /\ watching' = WatchRegistered(ok)
    /\ failed_at' = IF ok THEN failed_at ELSE "watch"
    /\ unwatched' = FALSE
    /\ UNCHANGED << debounce_ms, now, queue, pending >>
    /\ UNCHANGED << cbVars, chkVars, histVars >>
    /\ UNCHANGED isoVars

\* the notifications still handed to the closure once the watcher is dropped:
\* those the event loop had already read
KeptOnDrop(q) == {SubSeq(q, 1, k) : k \in 0..Len(q)}

\* watcher.rs:16-19: the ShaderHotReloader value is dropped, and with it the
\* watcher and the receiver; a rebuild in progress is not interrupted
Drop ==
    /\ ctor = "ok"
    /\ chk_pc = "idle"
    /\ ctor' = "dropped"
    /\ watching' = FALSE
    /\ queue' = 0
    /\ pending' \in KeptOnDrop(pending)
    /\ unwatched' = FALSE
    /\ UNCHANGED << debounce_ms, failed_at, now >>
    /\ UNCHANGED << cbVars, chkVars, histVars >>
    /\ UNCHANGED isoVars

(***************************************************************************)
(* The file system and the clock.                                          *)
(***************************************************************************)
\* a file-system change under the watched directory, the `limit`-th at
\* most: the watcher queues a notification for the closure while the watch
\* is registered, and nobody is told otherwise
Change(limit) ==
    /\ IF watching
       THEN /\ fs_count < limit
            /\ fs_count' = fs_count + 1
            /\ pending' = Append(pending, now)
            /\ UNCHANGED unwatched
       ELSE /\ ~unwatched
            /\ unwatched' = TRUE
            /\ UNCHANGED << fs_count, pending >>
    /\ UNCHANGED << handled, builds, succeeded, published, fresh, acc_at,
                    prev_outcome, build_start, eprinted >>
    /\ UNCHANGED << ctor, debounce_ms, watching, failed_at, now, queue >>
    /\ UNCHANGED << cbVars, chkVars >>
    /\ UNCHANGED isoVars

\* a file-system change under the watched directory
FsChange == Change(MaxEvents)

\* the clock advances by `step` ms, up to `limit`, while a build runs or
\* while the closure waits for an event
Advance(step, limit) ==
    /\ now + step <= limit
    /\ \/ cb_pc = "compiling"
       \/ cb_pc = "idle" /\ pending = <<>> /\ ctor = "ok"
    /\ now' = now + step
    /\ UNCHANGED << ctorVars, queue, pending >>
    /\ UNCHANGED << cbVars, chkVars, histVars >>
    /\ UNCHANGED isoVars

\* time passes while a build runs or while the closure waits for an event
Tick == Advance(TickMs, MaxTime)

(***************************************************************************)
(* The event-delivery thread: the closure of watcher.rs:58-98.             *)
(***************************************************************************)
\* watcher.rs:57-58, the mutant: the closure is called for the next
\* notification while a call of it is still inside compile_shaders
CallbackFree_reentrant == cb_pc \in {"idle", "compiling"}

\* watcher.rs:57-58: the watcher's one event-loop thread calls the closure,
\* so a call starts only when the previous one has returned
CallbackFree == cb_pc = "idle"

\* watcher.rs:58: the watcher calls the closure with the next notification
Deliver(res) ==
    /\ CallbackFree
    /\ pending # <<>>
    /\ pending' = Tail(pending)
    /\ cb_pc' = "filter"
    /\ cur_event' = res
    /\ cur_at' = Head(pending)
    /\ handled' = handled + 1
    /\ UNCHANGED << fs_count, builds, succeeded, published, fresh,
                    acc_at, prev_outcome, build_start, eprinted >>
    /\ UNCHANGED << ctorVars, now, queue, last_compile_time, time_guard >>
    /\ UNCHANGED chkVars
    /\ UNCHANGED isoVars

\* watcher.rs:59-70: an Err, another kind of event or an event without a .rs
\* path ends the closure; otherwise the closure locks last_compile_time
Filter ==
    /\ cb_pc = "filter"
    /\ IF Qualifies(cur_event)
       THEN /\ time_guard = "free"
            /\ time_guard' = "callback"
            /\ cb_pc' = "debounce"
            /\ UNCHANGED << cur_event, cur_at >>
       ELSE /\ cb_pc' = "idle"
            /\ cur_event' = NoEvent
            /\ cur_at' = 0
            /\ UNCHANGED time_guard
    /\ UNCHANGED << ctorVars, now, queue, pending, last_compile_time >>
    /\ UNCHANGED << chkVars, histVars >>
    /\ UNCHANGED isoVars

\* watcher.rs:76, the mutant: the clock is left alone when the event is accepted
AcceptedTime_stale(last, t) == last

\* watcher.rs:76: *last_time = Some(Instant::now())
AcceptedTime(last, t) == Some(t)

\* watcher.rs:72-74, the mutant: a suppressed event restarts the window
SuppressedTime_sliding(last, t) == Some(t)

\* watcher.rs:72-74: the early return writes nothing to the clock
SuppressedTime(last, t) == last

\* watcher.rs:70-81, the mutant: compile_shaders is called inside the block
\* of `if let Ok(mut last_time)`, the guard still alive
GuardDuringBuild_held == "callback"

\* watcher.rs:77: the block of `if let Ok(mut last_time)` ends, and drops the
\* guard, before compile_shaders is called at line 81
GuardDuringBuild == "free"

\* watcher.rs:72, the mutant: the time elapsed is that at the arrival of
\* the notification
ElapsedReadAt_arrival == cur_at

\* watcher.rs:72: last.elapsed() reads the clock when the closure gets to
\* the test
ElapsedReadAt == now

\* watcher.rs:70-81: inside the window the closure returns; otherwise it
\* records the instant, releases the guard and calls compile_shaders
Debounce ==
    /\ cb_pc = "debounce"
    /\ cur_event' = NoEvent
    /\ cur_at' = 0
    /\ IF Debounced(last_compile_time, ElapsedReadAt, debounce_ms)
       THEN /\ cb_pc' = "idle"
            /\ time_guard' = "free"
            /\ last_compile_time' = SuppressedTime(last_compile_time, now)
            /\ UNCHANGED << builds, acc_at, build_start >>
       ELSE /\ last_compile_time' = AcceptedTime(last_compile_time, now)
            /\ time_guard' = GuardDuringBuild
            /\ cb_pc' = "compiling"
            /\ builds' = builds + 1
            /\ acc_at' = Some(cur_at)
            /\ build_start' = Some(now)
    /\ UNCHANGED << fs_count, handled, succeeded, published, fresh,
                    prev_outcome, eprinted >>
    /\ UNCHANGED << ctorVars, now, queue, pending >>
    /\ UNCHANGED chkVars
    /\ UNCHANGED isoVars

\* watcher.rs:81-94, the mutant: a message is sent whatever the build returned
Publishes_always(ok) == TRUE

\* watcher.rs:81-94: the message is sent in the else branch of `if let Err(e)`
Publishes(ok) == ok

\* watcher.rs:92, the mutant: the message is queued although the Receiver
\* is gone
SendDelivers_always == TRUE

\* watcher.rs:92: `let _ = tx.send(())` delivers the message while the
\* receiver exists and is an ignored Err once it is dropped
SendDelivers == ctor # "dropped"

\* watcher.rs:87-88, the mutant: the Err is unwrapped and the thread panics
AfterRebuild_panic(ok) == IF ok THEN "idle" ELSE "dead"

\* watcher.rs:87-94: both branches fall out of the closure, which returns
AfterRebuild(ok) == "idle"

\* watcher.rs:81-94: compile_shaders returns; Err is printed, Ok sends ()
RebuildReturn(ok) ==
    /\ cb_pc = "compiling"
    /\ cb_pc' = AfterRebuild(ok)
    /\ succeeded' = IF ok THEN succeeded + 1 ELSE succeeded
    /\ prev_outcome' = IF ok THEN "ok" ELSE "err"
    /\ fresh' = IF ok THEN fresh + 1 ELSE fresh
    /\ eprinted' = IF ok THEN eprinted ELSE eprinted + 1
    /\ IF Publishes(ok) /\ SendDelivers
       THEN /\ queue' = queue + 1
            /\ published' = published + 1
       ELSE UNCHANGED << queue, published >>
    /\ UNCHANGED << fs_count, handled, builds, acc_at, build_start >>
    /\ UNCHANGED << ctorVars, now, pending, last_compile_time, time_guard,
                    cur_event, cur_at >>
    /\ UNCHANGED chkVars
    /\ UNCHANGED isoVars

(***************************************************************************)
(* The consumer: check_for_reload, watcher.rs:117-128.                     *)
(***************************************************************************)
\* watcher.rs:118, the mutant: the receiver sits behind the clock's mutex
CheckLockFree_shared == rx_guard = "free" /\ time_guard = "free"

\* watcher.rs:118: self.reload_receiver.lock() waits for its own mutex only
CheckLockFree == rx_guard = "free"

\* watcher.rs:117-120: the call locks the receiver and clears has_reload
CheckStart ==
    /\ ctor = "ok"
    /\ chk_pc = "idle"
    /\ CheckLockFree
    /\ rx_guard' = "consumer"
    /\ chk_pc' = "draining"
    /\ has_reload' = FALSE
    /\ drained' = 0
    /\ UNCHANGED ret
    /\ UNCHANGED << ctorVars, now, queue, pending >>
    /\ UNCHANGED << cbVars, histVars >>
    /\ UNCHANGED isoVars

\* watcher.rs:121, the mutant: `if` in place of `while`, one message is taken
LoopsAgain_once(got) == FALSE

\* watcher.rs:121: the body runs, and the test is made again, while
\* try_recv returns Ok
LoopsAgain(got) == got

\* watcher.rs:121-124: one try_recv; a message sets has_reload and the loop
\* continues, an empty channel ends the loop and the call returns has_reload
CheckRecv ==
    /\ chk_pc = "draining"
    /\ LET got == queue > 0
       IN  /\ queue' = IF got THEN queue - 1 ELSE queue
           /\ has_reload' = IF got THEN TRUE ELSE has_reload
           /\ drained' = IF got THEN drained + 1 ELSE drained
           /\ IF LoopsAgain(got)
              THEN UNCHANGED << rx_guard, chk_pc, ret, fresh >>
              ELSE /\ rx_guard' = "free"
                   /\ chk_pc' = "idle"
                   /\ ret' = has_reload'
                   /\ fresh' = 0
    /\ UNCHANGED << fs_count, handled, builds, succeeded, published,
                    acc_at, prev_outcome, build_start, eprinted >>
    /\ UNCHANGED << ctorVars, now, pending >>
    /\ UNCHANGED cbVars
    /\ UNCHANGED isoVars

(***************************************************************************)
(* Specification.                                                          *)
(***************************************************************************)
Next ==
    \/ \E ms \in DebounceChoices : BuilderDebounceMs(ms)
    \/ Build
    \/ \E ok \in BOOLEAN : InitialCompileReturn(ok)
    \/ \E ok \in BOOLEAN : WatcherNew(ok)
    \/ \E ok \in BOOLEAN : WatcherWatch(ok)
    \/ Drop
    \/ FsChange
    \/ Tick
    \/ \E res \in RawResults : Deliver(res)
    \/ Filter
    \/ Debounce
    \/ \E ok \in BOOLEAN : RebuildReturn(ok)
    \/ CheckStart
    \/ CheckRecv

Spec == Init /\ [][Next]_vars

(***************************************************************************)
(* The live session on its own: construction has succeeded with the        *)
(* default window, the session is never dropped and every notification is  *)
(* the modification of a .rs file.  The clock runs longer and more files   *)
(* change than in Spec.                                                     *)
(***************************************************************************)
LiveTime == LiveTicks * TickMs

\* watcher.rs:58: the notification of a modification of src/lib.rs
LiveResults ==
    { [ok |-> TRUE, kind |-> <<"Modify", "Data">>, paths |-> {P_lib_rs}] }

\* watcher.rs:106-109: new_with_config, called by a builder that left the
\* window at its default, has returned Ok(Self)
LiveInit ==
    /\ ctor = "ok"
    /\ debounce_ms = DEFAULT_DEBOUNCE_MS
    /\ now = 0
    /\ last_compile_time = InitialClock
    /\ time_guard = "free"
    /\ rx_guard = "free"
    /\ queue = 0
    /\ watching = TRUE
    /\ pending = <<>>
    /\ cb_pc = "idle"
    /\ cur_event = NoEvent
    /\ cur_at = 0
    /\ chk_pc = "idle"
    /\ has_reload = FALSE
    /\ drained = 0
    /\ ret = FALSE
    /\ failed_at = "none"
    /\ fs_count = 0
    /\ unwatched = FALSE
    /\ handled = 0
    /\ builds = 0
    /\ succeeded = 0
    /\ published = 0
    /\ fresh = 0
    /\ acc_at = None
    /\ prev_outcome = "none"
    /\ build_start = None
    /\ eprinted = 0
    /\ NoSessions

LiveChange == Change(LiveEvents)

LiveTick == Advance(TickMs, LiveTime)

LiveNext ==
    \/ LiveChange
    \/ LiveTick
    \/ \E res \in LiveResults : Deliver(res)
    \/ Filter
    \/ Debounce
    \/ \E ok \in BOOLEAN : RebuildReturn(ok)
    \/ CheckStart
    \/ CheckRecv

LiveSpec == LiveInit /\ [][LiveNext]_vars

(***************************************************************************)
(* Two sessions.  Each call of new_with_config allocates the cell of its   *)
(* clock and creates its channel; the closure of a session holds the cell  *)
(* and the Sender, the session holds the Receiver.  A call of a closure    *)
(* and a call of check_for_reload are one step each here: what is looked   *)
(* at is which cells a session reads and writes.                           *)
(***************************************************************************)
\* watcher.rs:35-37, the mutant: the channel and the clock are statics that
\* all sessions share
NewCell_static(heap) == 1

\* watcher.rs:35-37: mpsc::channel() and Arc::new(..) make a new channel and
\* a new cell at every call
NewCell(heap) == Len(heap) + 1

\* the session other than s
Other(s) == CHOOSE o \in Sessions : o # s

\* builder.rs:116-125 and watcher.rs:27-109: a builder's build() constructs
\* session s with a window of ms, and construction returns Ok
NewSession(s, ms) ==
    /\ ~sessions[s].live
    /\ clock_cells' = Append(clock_cells, InitialClock)
    /\ channels' = Append(channels, 0)
    /\ sessions' = [sessions EXCEPT ![s] =
                       [ live |-> TRUE, clock |-> NewCell(clock_cells),
                         chan |-> NewCell(channels), window |-> ms,
                         events |-> 0, sent |-> 0, ret |-> FALSE ]]
    /\ last_call' = <<s, "new">>
    /\ UNCHANGED << ctorVars, cbVars, chkVars, histVars, now, queue, pending >>

\* watcher.rs:58-97: the closure of session s is called with a qualifying
\* event and its rebuild, if one is started, returns Ok or Err
SessionEvent(s, ok) ==
    LET me == sessions[s]
        accepted == ~Debounced(clock_cells[me.clock], now, me.window)
        sends == accepted /\ Publishes(ok)
    IN  /\ me.live
        /\ me.events < MaxEvents
        /\ clock_cells' =
               IF accepted
               THEN [clock_cells EXCEPT
                        ![me.clock] = AcceptedTime(clock_cells[me.clock], now)]
               ELSE [clock_cells EXCEPT
                        ![me.clock] = SuppressedTime(clock_cells[me.clock], now)]
        /\ channels' =
               IF sends
               THEN [channels EXCEPT ![me.chan] = @ + 1]
               ELSE channels
        /\ sessions' = [sessions EXCEPT
                           ![s].events = @ + 1,
                           ![s].sent = IF sends THEN @ + 1 ELSE @]
        /\ last_call' = <<s, "event">>
        /\ UNCHANGED << ctorVars, cbVars, chkVars, histVars, now, queue,
                        pending >>

\* watcher.rs:117-128: check_for_reload on session s
SessionCheck(s) ==
    LET me == sessions[s]
    IN  /\ me.live
        /\ channels' = [channels EXCEPT ![me.chan] = 0]
        /\ sessions' = [sessions EXCEPT
                           ![s].ret = channels[me.chan] > 0,
                           ![s].sent = 0]
        /\ last_call' = <<s, "check">>
        /\ UNCHANGED clock_cells
        /\ UNCHANGED << ctorVars, cbVars, chkVars, histVars, now, queue,
                        pending >>

\* time passes
SessionsTick ==
    /\ now + TickMs <= MaxTime
    /\ now' = now + TickMs
    /\ last_call' = <<"none", "tick">>
    /\ UNCHANGED << clock_cells, channels, sessions >>
    /\ UNCHANGED << ctorVars, cbVars, chkVars, histVars, queue, pending >>

SessionsNext ==
    \/ \E s \in Sessions : \E ms \in DebounceChoices : NewSession(s, ms)
    \/ \E s \in Sessions : \E ok \in BOOLEAN : SessionEvent(s, ok)
    \/ \E s \in Sessions : SessionCheck(s)
    \/ SessionsTick

SessionsSpec == Init /\ [][SessionsNext]_vars

(***************************************************************************)
(* Vocabulary of the properties.                                           *)
(***************************************************************************)
\* the paths of the model that name a file with the extension .rs
RsPaths == {P_lib_rs, P_util_rs}

\* the closure leaves the position it is at
LeavesFilter == cb_pc = "filter" /\ cb_pc' # "filter"
LeavesDebounce == cb_pc = "debounce" /\ cb_pc' # "debounce"
RebuildEnds == cb_pc = "compiling" /\ cb_pc' # "compiling"

\* a check_for_reload call returns
CheckReturns == chk_pc = "draining" /\ chk_pc' = "idle"

(***************************************************************************)
(* C1  Debounce suppression.                                               *)
(***************************************************************************)
\* C1: a qualifying event that arrived strictly within the debounce window of
\* the arrival of the latest accepted event starts no build, however long the
\* accepted event's build runs (so N such events make one build in all).
C1_SuppressedByArrival ==
    [][ ( /\ LeavesDebounce
          /\ acc_at # None
          /\ cur_at - acc_at[1] < debounce_ms )
        => builds' = builds /\ cb_pc' = "idle" ]_vars

(***************************************************************************)
(* C2  Debounce release.                                                   *)
(***************************************************************************)
\* C2: a qualifying event handled when the time elapsed since the start of
\* the previous accepted rebuild is not less than the debounce window starts
\* a new build, whether that rebuild succeeded, failed or is the latest one
\* known.
C2_DebounceRelease ==
    [][ ( /\ LeavesDebounce
          /\ last_compile_time # None
          /\ now - last_compile_time[1] >= debounce_ms )
        => /\ builds' = builds + 1
           /\ cb_pc' = "compiling"
           /\ last_compile_time' = Some(now) ]_vars

\* C2 witness: a second build was started, one non-empty window after a build
\* that failed.
C2_Witness ==
    /\ cb_pc = "compiling"
    /\ builds = 2
    /\ prev_outcome = "err"
    /\ debounce_ms > 0
    /\ last_compile_time = Some(now)

(***************************************************************************)
(* C3  Drain-and-coalesce.                                                 *)
(***************************************************************************)
\* C3: a check_for_reload call returns true exactly when at least one rebuild
\* succeeded since the previous call returned (M >= 1 of them give one true,
\* none gives false), and it leaves the channel empty.
C3_DrainAndCoalesce ==
    [][ CheckReturns => (ret' = (fresh > 0)) /\ queue' = 0 ]_vars

\* C3 witness: one call took the messages of two rebuilds and returned true.
C3_Witness ==
    /\ chk_pc = "idle"
    /\ ret
    /\ drained = 2
    /\ queue = 0
    /\ succeeded = 2

(***************************************************************************)
(* C4  A signal only after a successful rebuild.                           *)
(***************************************************************************)
\* C4: the messages ever sent are at most the rebuilds that returned Ok, and
\* check_for_reload returns true only when a rebuild returned Ok since the
\* previous call returned (or since construction).
C4_SignalOnlyAfterSuccess ==
    /\ [](published <= succeeded)
    /\ [][ (CheckReturns /\ ret') => fresh > 0 ]_vars

\* C4 witness: after one failed and one successful rebuild one message was
\* sent, and the consumer has seen it.
C4_Witness ==
    /\ builds = 2
    /\ succeeded = 1
    /\ published = 1
    /\ ret
    /\ queue = 0
    /\ chk_pc = "idle"

C6_ExtensionFilter ==
    /\ [][ (LeavesFilter /\ cur_event.paths \cap RsPaths = {})
           => /\ cb_pc' = "idle"
              /\ builds' = builds
              /\ published' = published
              /\ queue' = queue
              /\ last_compile_time' = last_compile_time ]_vars
    /\ [][ ( /\ LeavesFilter
             /\ cur_event.ok
             /\ cur_event.kind[1] \in {"Create", "Modify"}
             /\ cur_event.paths \cap RsPaths # {} )
           => cb_pc' = "debounce" ]_vars
    /\ [][ (LeavesDebounce /\ cb_pc' = "compiling") => builds' = builds + 1 ]_vars
    /\ [][ builds' # builds => LeavesDebounce ]_vars

\* C6 witness: a modify event with a .rs path and another path has passed
\* the filter and is at the debounce test.
C6_Witness ==
    /\ cb_pc = "debounce"
    /\ cur_event.paths = {P_lib_rs, P_cargo_toml}
    /\ cur_event.kind[1] = "Modify"
    /\ builds = 0

C8_FatalConstruction ==
    failed_at = "initial_compile"
        => /\ ctor = "err"
           /\ ~watching
           /\ pending = <<>>
           /\ handled = 0
           /\ builds = 0
           /\ cb_pc = "idle"

\* C8 witness: the initial build failed and a file changed afterwards.
C8_Witness ==
    /\ failed_at = "initial_compile"
    /\ ctor = "err"
    /\ unwatched

(***************************************************************************)
(* C9  Atomic construction on watch-setup failure.                         *)
(***************************************************************************)
\* C9: once creating the watcher or registering the watch has failed,
\* construction has returned Err, the caller has no session to poll, and no
\* notification is queued or handled: no rebuild, no message.
C9_WatchSetupFailure ==
    failed_at \in {"watcher_new", "watch"}
        => /\ ctor = "err"
           /\ ~watching
           /\ pending = <<>>
           /\ handled = 0
           /\ builds = 0
           /\ published = 0
           /\ queue = 0
           /\ cb_pc = "idle"
           /\ chk_pc = "idle"
           /\ ~ENABLED CheckStart

\* C9 witness: watch() failed after a successful initial build and a file
\* changed afterwards.
C9_Witness ==
    /\ failed_at = "watch"
    /\ ctor = "err"
    /\ unwatched

(***************************************************************************)
(* C10  check_for_reload does not wait for the event-delivery thread.      *)
(***************************************************************************)
\* C10: whatever the event-delivery thread is doing (inside a rebuild, or
\* holding the guard of the clock), a check_for_reload call can start at once
\* and each try_recv of its loop can run at once; the loop takes a message
\* per turn, so it makes no more turns than messages were sent.
C10_CheckNeverWaits ==
    /\ (ctor = "ok" /\ chk_pc = "idle") => ENABLED CheckStart
    /\ chk_pc = "draining" => ENABLED CheckRecv
    /\ drained <= published
    /\ rx_guard # "callback"

\* C10 witness: a call is under way while the event-delivery thread is
\* inside compile_shaders.
C10_Witness ==
    /\ chk_pc = "draining"
    /\ cb_pc = "compiling"
    /\ rx_guard = "consumer"

(***************************************************************************)
(* C11  The scenario of three modifications, window of 500 ms.             *)
(***************************************************************************)
\* C11: with the window at 500 ms, the modification that arrives at 0 ms
\* starts build #1 and, the build returning Ok, its message makes the next
\* check_for_reload return true; the modification that arrives at 100 ms is
\* suppressed, no build starts for it, and a check_for_reload with no
\* successful rebuild since the previous one returns false; the modification
\* that arrives at 700 ms starts a build, and that build returning Ok sends a
\* message that makes the next check_for_reload return true.
C11_ThreeModifications ==
    /\ [][ (LeavesDebounce /\ handled = 1 /\ cur_at = 0)
           => builds' = 1 /\ cb_pc' = "compiling" ]_vars
    /\ [][ (RebuildEnds /\ succeeded' = succeeded + 1)
           => queue' = queue + 1 ]_vars
    /\ [][ CheckReturns => ret' = (fresh > 0) ]_vars
    /\ [][ (LeavesDebounce /\ handled = 2 /\ acc_at = Some(0) /\ cur_at = 100)
           => builds' = builds /\ cb_pc' = "idle" ]_vars
    /\ [][ ( /\ LeavesDebounce
             /\ handled = 3
             /\ builds = 1
             /\ acc_at = Some(0)
             /\ cur_at = 700 )
           => builds' = 2 /\ cb_pc' = "compiling" ]_vars

(***************************************************************************)
(* C12  The clock is written at acceptance, before the build.              *)
(***************************************************************************)
\* C12: an accepted event sets the clock to the instant of its acceptance in
\* the step that invokes the build, so all through the build and after it,
\* failed or not, the clock holds the instant the build was invoked; nothing
\* else writes the clock, the end of a build least of all, and a message is
\* sent only by the step in which a build returns.
C12_ClockBeforeBuild ==
    /\ [][ (LeavesDebounce /\ cb_pc' = "compiling")
           => last_compile_time' = Some(now) ]_vars
    /\ [](last_compile_time = build_start)
    /\ [][ last_compile_time' # last_compile_time
           => LeavesDebounce /\ cb_pc' = "compiling" ]_vars
    /\ [][ RebuildEnds => last_compile_time' = last_compile_time ]_vars
    /\ [][ published' # published => RebuildEnds ]_vars

\* C12 witness: a rebuild has failed some time after it was invoked, and the
\* clock holds the instant of its invocation.
C12_Witness ==
    /\ cb_pc = "idle"
    /\ builds = 1
    /\ prev_outcome = "err"
    /\ build_start # None
    /\ last_compile_time = build_start
    /\ build_start[1] < now

(***************************************************************************)
(* C13  No overlapping builds.                                             *)
(***************************************************************************)
\* the compile_shaders calls in progress: the one of the constructor and the
\* one of the closure
BuildsInProgress ==
    (IF ctor = "initial_compile" THEN 1 ELSE 0)
        + (IF cb_pc = "compiling" THEN 1 ELSE 0)

\* C13: at most one compile_shaders call is in progress; until construction
\* is over no notification is queued or handled, and the closure is called
\* with a notification only when its previous call has returned.
C13_NoOverlappingBuilds ==
    /\ [](BuildsInProgress <= 1)
    /\ [](ctor \in {"builder", "initial_compile", "watcher_new", "watch"}
            => handled = 0 /\ pending = <<>> /\ cb_pc = "idle")
    /\ [][ handled' # handled => cb_pc = "idle" /\ cb_pc' = "filter" ]_vars

\* C13 witness: a notification waits while the rebuild of an earlier one is
\* in progress.
C13_Witness ==
    /\ cb_pc = "compiling"
    /\ builds = 1
    /\ Len(pending) = 1
    /\ handled = 1

C15_TransportErrorSurfaced ==
    [][ (LeavesFilter /\ ~cur_event.ok)
        => /\ eprinted' = eprinted + 1
           /\ cb_pc' = "idle"
           /\ builds' = builds
           /\ published' = published
           /\ queue' = queue
           /\ last_compile_time' = last_compile_time
           /\ watching' = watching ]_vars

(***************************************************************************)
(* C16  Events of other kinds.                                             *)
(***************************************************************************)
\* C16: an event that is neither a Create nor a Modify ends the closure at
\* the filter: no build, no message, the clock, its guard, the session and
\* the watch as they were.
C16_OtherKindsDiscarded ==
    [][ ( /\ LeavesFilter
          /\ cur_event.ok
          /\ cur_event.kind[1] \notin {"Create", "Modify"} )
        => /\ cb_pc' = "idle"
           /\ builds' = builds
           /\ published' = published
           /\ queue' = queue
           /\ last_compile_time' = last_compile_time
           /\ time_guard' = time_guard
           /\ ctor' = ctor
           /\ watching' = watching ]_vars

\* C16 witness: the closure is called with an Access event on a .rs file
\* inside the window of an earlier rebuild.
C16_Witness ==
    /\ cb_pc = "filter"
    /\ cur_event.ok
    /\ cur_event.kind[1] = "Access"
    /\ cur_event.paths = {P_lib_rs}
    /\ last_compile_time # None
    /\ debounce_ms > 0
    /\ now - last_compile_time[1] < debounce_ms

(***************************************************************************)
(* C17  Drop during a rebuild.                                             *)
(***************************************************************************)
\* C17: a rebuild that ends after the session was dropped, successful or not,
\* ends with a normal return of the closure; its message reaches no channel,
\* and once the session is dropped there is no message to take and no
\* check_for_reload call to take it.
C17_DropDuringRebuild ==
    /\ [][ (RebuildEnds /\ ctor = "dropped")
           => /\ cb_pc' = "idle"
              /\ queue' = queue
              /\ published' = published
              /\ ctor' = ctor ]_vars
    /\ [](ctor = "dropped"
            => queue = 0 /\ chk_pc = "idle" /\ ~ENABLED CheckStart)

\* C17 witness: the session was dropped during the one rebuild, which then
\* succeeded and sent nothing.
C17_Witness ==
    /\ ctor = "dropped"
    /\ cb_pc = "idle"
    /\ builds = 1
    /\ succeeded = 1
    /\ published = 0

(***************************************************************************)
(* C18  Sessions are isolated.                                             *)
(***************************************************************************)
\* C18: with two sessions constructed, a call of the closure of one of them,
\* whether its event is accepted, suppressed or its rebuild fails, and a
\* check_for_reload call on it leave the clock and the channel of the other
\* as they were; and a check_for_reload call on a session returns true
\* exactly when that session's own closure sent a message since its
\* previous call.
C18_SessionsIsolated ==
    /\ [][ \A s \in Sessions :
            ( /\ sessions[s].live
              /\ sessions[Other(s)].live
              /\ last_call'[1] = s )
            => /\ clock_cells'[sessions[Other(s)].clock]
                    = clock_cells[sessions[Other(s)].clock]
               /\ channels'[sessions[Other(s)].chan]
                    = channels[sessions[Other(s)].chan] ]_vars
    /\ [][ \A s \in Sessions :
            last_call' = <<s, "check">>
            => sessions'[s].ret = (sessions[s].sent > 0) ]_vars

\* C18 witness: A's closure has accepted an event and sent a message, and
\* the check_for_reload call on B that followed returned false: B's clock
\* is empty and A's message is still in A's channel.
C18_Witness ==
    /\ sessions["A"].live
    /\ sessions["B"].live
    /\ last_call = <<"B", "check">>
    /\ ~sessions["B"].ret
    /\ sessions["A"].sent = 1
    /\ channels[sessions["A"].chan] = 1
    /\ clock_cells[sessions["A"].clock] # None
    /\ clock_cells[sessions["B"].clock] = None

(***************************************************************************)
(* C19  The initial build opens no window and sends no message.            *)
(***************************************************************************)
\* C19: when construction has succeeded and no notification was handled yet
\* the clock is empty and no message was sent; check_for_reload returns false
\* as long as no rebuild has succeeded; the first event to reach the debounce
\* test starts a build, however soon after the initial build.
C19_InitialBuildOpensNoWindow ==
    /\ []((ctor = "ok" /\ handled = 0)
            => last_compile_time = None /\ queue = 0 /\ published = 0)
    /\ [][ (CheckReturns /\ succeeded = 0) => ~ret' ]_vars
    /\ [][ (LeavesDebounce /\ builds = 0)
           => cb_pc' = "compiling" /\ builds' = 1 ]_vars

\* C19 witness: with the default window, the first event is handled at the
\* instant construction ended and its rebuild is in progress.
C19_Witness ==
    /\ cb_pc = "compiling"
    /\ builds = 1
    /\ handled = 1
    /\ now = 0
    /\ debounce_ms = DEFAULT_DEBOUNCE_MS
    /\ last_compile_time = Some(0)

(***************************************************************************)
(* C20  The window is fixed, not sliding.                                  *)
(***************************************************************************)
\* C20: an event that the debounce test suppresses leaves the clock as it
\* was, so whatever events were suppressed in between, an event that reaches
\* the debounce test when the window has elapsed since the latest build was
\* invoked starts a build.
C20_FixedWindow ==
    /\ [][ (LeavesDebounce /\ cb_pc' = "idle")
           => last_compile_time' = last_compile_time ]_vars
    /\ [][ ( /\ LeavesDebounce
             /\ build_start # None
             /\ now - build_start[1] >= debounce_ms )
           => cb_pc' = "compiling" /\ builds' = builds + 1 ]_vars

\* C20 witness: of three modifications the second was suppressed, and the
\* third, which arrived when the window of the first had elapsed, has
\* started the second build.
C20_Witness ==
    /\ cb_pc = "compiling"
    /\ handled = 3
    /\ builds = 2
    /\ debounce_ms > 0
    /\ acc_at = Some(now)
    /\ last_compile_time = Some(now)

====
